---- MODULE Spec2Model ----
(***************************************************************************)
(* Salon booking application: the resolver layer (queries, createBooking,  *)
(* register, login) over the JSON document sampleData.json, the service    *)
(* client mockGraphQL, and the booking screen component that calls it.     *)
(*                                                                         *)
(* Strings whose length or characters the code inspects (name, phone,      *)
(* email, password) are sequences of one-character strings; ids, messages  *)
(* and display strings are TLA+ strings.                                   *)
(***************************************************************************)
EXTENDS Integers, Sequences, FiniteSets, Bags, TLC

\* ------------------------------------------------------------------ bounds
\* Largest value Date.now() takes in a run (the clock starts at 0).
MaxClock == 1
\* Largest number of bookings the document holds.
MaxBookings == 2
\* Largest number of bookings the user confirms in a run.
MaxConfirmed == 1
\* Largest number of times the user acts while a call is in flight
\* (SpecImpatient).
MaxHurry == 2
\* Largest number of calls in flight at a time.
MaxPending == 4
\* Largest number of mutations in flight in the server processes.
MaxInFlight == 2

\* --------------------------------------------------------- JavaScript values
\* null / undefined: what Array.prototype.find returns when nothing matches,
\* and the `user: null` of a failed AuthResponse.
Null == [null |-> TRUE]

\* Array.prototype.find: the first element satisfying P, undefined otherwise.
find(arr, P(_)) ==
    IF \E i \in 1..Len(arr) : P(arr[i])
    THEN arr[CHOOSE i \in 1..Len(arr) :
                 P(arr[i]) /\ \A j \in 1..(i - 1) : ~P(arr[j])]
    ELSE Null

\* Array.prototype.filter: the elements satisfying P, in the array's order.
filter(arr, P(_)) == SelectSeq(arr, P)

\* Array.prototype.includes / String.prototype.includes (one character).
includes(arr, x) == \E i \in 1..Len(arr) : arr[i] = x

\* A string of n copies of the character c.
Rep(c, n) == [i \in 1..n |-> c]

\* ------------------------------------------------------------- seed document
DemoEmail == <<"d", "@", "s">>
DemoPassword == <<"d", "e", "m", "o", "1", "2", "3">>

SeedSalons ==
    << [id |-> "salon1", name |-> "Glamour Studio"],
       [id |-> "salon2", name |-> "Urban Cuts"] >>

SeedServices ==
    << [id |-> "svc1", name |-> "Haircut", price |-> 25, salonId |-> "salon1"],
       [id |-> "svc2", name |-> "Coloring", price |-> 40, salonId |-> "salon1"],
       [id |-> "svc3", name |-> "Beard Trim", price |-> 15, salonId |-> "salon2"] >>

SeedStaff ==
    << [id |-> "staff1", name |-> "Emma", salonId |-> "salon1"],
       [id |-> "staff2", name |-> "Liam", salonId |-> "salon2"] >>

SeedSchedules ==
    << [id |-> "sch1", time |-> "10:00 AM", isAvailable |-> TRUE],
       [id |-> "sch2", time |-> "11:00 AM", isAvailable |-> FALSE],
       [id |-> "sch3", time |-> "12:00 PM", isAvailable |-> TRUE],
       [id |-> "sch4", time |-> "2:00 PM", isAvailable |-> TRUE],
       [id |-> "sch5", time |-> "3:00 PM", isAvailable |-> FALSE] >>

SeedUsers ==
    << [id |-> "1", name |-> <<"D">>, phone |-> Rep("5", 10),
        email |-> DemoEmail, password |-> DemoPassword] >>

\* The document as shipped: with an empty bookings list ...
sampleData ==
    [salons |-> SeedSalons, services |-> SeedServices, staff |-> SeedStaff,
     schedules |-> SeedSchedules, users |-> SeedUsers, bookings |-> <<>>]

\* ... or without the bookings key (createBooking and getBookings allow it).
sampleDataNoBookings ==
    [salons |-> SeedSalons, services |-> SeedServices, staff |-> SeedStaff,
     schedules |-> SeedSchedules, users |-> SeedUsers]

\* ------------------------------------------------------------------- inputs
NewEmail1 == <<"D", "@", "s">>
NewEmail2 == <<"a", "@", "b">>

Names == { <<>>, <<"A">> }
Phones == { <<>>, Rep("5", 9), Rep("5", 10) }
Emails == { <<>>, <<"d">>, DemoEmail, NewEmail1, NewEmail2 }
Passwords == { <<>>, Rep("x", 5), Rep("x", 6) }

\* Every combination of well-formed and malformed fields (SpecRegister).
RegisterInputs ==
    [name : Names, phone : Phones, email : Emails, password : Passwords]

\* The registrations interleaved with the other resolvers (Spec).
Registrations ==
    [name : { <<"A">> }, phone : { Rep("5", 10) },
     email : { DemoEmail, NewEmail1, NewEmail2 },
     password : { Rep("x", 6) }]

LoginInputs ==
    [email : { DemoEmail, NewEmail1 },
     password : { DemoPassword, Rep("x", 6) }]

UserIds == { "1", "nobody" }

\* The salons of the document and an id no salon has.
SalonIds == { "salon1", "salon2", "salonX" }

\* The staff members of the document and an id no staff member has.
StaffIds == { "staff1", "staff2", "staffX" }

\* Bookings whose salon, services and staff member all exist, of one salon
\* or of both (SpecCrossSalon).
CrossSalonInputs ==
    [userId : { "1" },
     salonId : { "salon1", "salon2" },
     serviceIds : { <<"svc1">>, <<"svc3">>, <<"svc1", "svc3">> },
     staffId : { "staff1", "staff2" },
     time : { "10:00 AM" }]

\* One valid booking for each user (SpecQueries).
QueryBookingInputs ==
    [userId : UserIds,
     salonId : { "salon1" },
     serviceIds : { <<"svc1">> },
     staffId : { "staff1" },
     time : { "10:00 AM" }]

\* Bookings for either user, and every combination of known and unknown
\* salon, services and staff member.
BookingInputs ==
    [userId : UserIds,
     salonId : { "salon1" },
     serviceIds : { <<"svc2", "svcX", "svc1">> },
     staffId : { "staff1" },
     time : { "10:00 AM" }]
    \cup
    [userId : { "1" },
     salonId : { "salon1", "salonX" },
     serviceIds : { <<>>, <<"svcX">>, <<"svc2", "svcX", "svc1">> },
     staffId : { "staff1", "staffX" },
     time : { "10:00 AM" }]

\* -------------------------------------------------------------------- state
VARIABLES
    file,          \* what the text of data/sampleData.json denotes
    now,           \* the value Date.now() returns
    last,          \* the resolver call that completed last, with its outcome
    created,       \* the successful createBooking calls: input and booking
    ui,            \* the state of the BookingScreen component (useState)
    calls,         \* the service calls in flight, each with its awaiting handler
    hurry,         \* how often the user may still act while a call is in flight
    unseen         \* the handlers whose calls the user does not wait for

vars == <<file, now, last, created, ui, calls, hurry, unseen>>

\* The resolvers called directly leave the component alone.
ctl == <<ui, calls, hurry, unseen>>

\* type Step and TabType
Steps ==
    { "login", "signup", "salon", "services", "staff", "schedule",
      "confirmation", "success" }
Tabs == { "home", "bookings", "profile" }

\* The useState initial values of BookingScreen.
InitialUi ==
    [isAuthenticated |-> FALSE, currentUser |-> Null,
     activeTab |-> "home", step |-> "login", loading |-> FALSE,
     salons |-> <<>>, services |-> <<>>, staff |-> <<>>, schedules |-> <<>>,
     selectedSalon |-> Null, selectedServices |-> <<>>,
     selectedStaff |-> Null, selectedSchedule |-> Null,
     myBookings |-> <<>>,
     email |-> <<>>, password |-> <<>>,
     signupName |-> <<>>, signupPhone |-> <<>>, signupEmail |-> <<>>,
     signupPassword |-> <<>>, signupConfirmPassword |-> <<>>]

\* ---------------------------------------------------------------- JSON text
\* A JSON text is represented by its syntax tree: an object is the list of
\* its members in the order they are written, an array the list of its
\* elements, and a string, number or boolean literal stands for its value.
\* (The indentation JSON.stringify(data, null, 2) adds is white space between
\* these tokens.)
JsonLiteral(v) == [kind |-> "literal", value |-> v]
JsonArray(elements) == [kind |-> "array", elements |-> elements]
JsonObject(members) == [kind |-> "object", members |-> members]

\* The property names of the entities, in the order they are enumerated.
KeyOrder ==
    << "id", "userId", "name", "price", "phone", "email", "password",
       "salonId", "salon", "salons", "services", "staff", "schedules",
       "users", "bookings", "time", "isAvailable" >>

\* Object.keys(obj)
keysOf(obj) == SelectSeq(KeyOrder, LAMBDA k : k \in DOMAIN obj)

\* JSON.stringify of an object whose properties are strings, numbers and
\* booleans (a salon, service, staff member, schedule or user).
stringifyFlat(obj) ==
    LET keys == keysOf(obj)
    IN  JsonObject([i \in 1..Len(keys) |->
                       [key |-> keys[i], value |-> JsonLiteral(obj[keys[i]])]])

\* JSON.stringify of a booking: salon, staff and services are nested; a
\* property whose value is undefined is left out of the text.
stringifyBooking(b) ==
    LET member(k) ==
            [key |-> k,
             value |-> CASE k \in {"salon", "staff"} -> stringifyFlat(b[k])
                         [] k = "services" ->
                                JsonArray([i \in 1..Len(b[k]) |->
                                              stringifyFlat(b[k][i])])
                         [] OTHER -> JsonLiteral(b[k])]
        defined(k) == k \in {"salon", "staff"} => b[k] # Null
        keys == SelectSeq(keysOf(b), defined)
    IN  JsonObject([i \in 1..Len(keys) |-> member(keys[i])])

\* JSON.stringify(data, null, 2) of a document: each collection it has,
\* as the array of its entities.
stringify(data) ==
    LET element(k, e) ==
            IF k = "bookings" THEN stringifyBooking(e) ELSE stringifyFlat(e)
        member(k) ==
            [key |-> k,
             value |-> JsonArray([i \in 1..Len(data[k]) |->
                                     element(k, data[k][i])])]
        keys == keysOf(data)
    IN  JsonObject([i \in 1..Len(keys) |-> member(keys[i])])

\* JSON.parse: the value a text denotes.  An object has the property names
\* of its members (of two members with one name, the later one counts).
RECURSIVE parse(_), parseElements(_, _), parseMembers(_, _)
\* the first n elements of an array
parseElements(elements, n) ==
    IF n = 0 THEN <<>>
    ELSE Append(parseElements(elements, n - 1), parse(elements[n]))
\* the first n members of an object
parseMembers(members, n) ==
    IF n = 0 THEN <<>>
    ELSE (members[n].key :> parse(members[n].value))
             @@ parseMembers(members, n - 1)
parse(json) ==
    CASE json.kind = "literal" -> json.value
      [] json.kind = "array" ->
             parseElements(json.elements, Len(json.elements))
      [] json.kind = "object" ->
             parseMembers(json.members, Len(json.members))

\* A plausible slip: the document imported at start-up is used as a cache.
readDataFromImport == sampleData

\* The variable `file` holds the value the text of the file denotes, so the
\* text is parsed where it is written and readData yields the value as it is
\* (the file is read through JSON.parse only).
readData == file

\* writeData: the text of the whole document replaces the file's content.
writeData(data) == file' = parse(stringify(data))

\* A resolver that returns or throws before its writeData leaves the file as
\* it is: the document it yields is then the one it read.
writeIfChanged(read, data) ==
    IF data = read THEN UNCHANGED file ELSE writeData(data)

\* data.bookings || []
bookingsOf(data) ==
    IF "bookings" \in DOMAIN data THEN data.bookings ELSE <<>>

\* ---------------------------------------------------------------- resolvers
\* Each resolver is a function of the document it read, its input and the
\* clock reading; it yields whether it threw, the value it returned (or the
\* Error it threw) and the document it wrote (the one it read when it wrote
\* nothing).
Returned(value, data) == [thrown |-> FALSE, value |-> value, data |-> data]
\* throw new Error(message)
Thrown(message, data) ==
    [thrown |-> TRUE, value |-> [message |-> message], data |-> data]

\* Query.getSalons: the salons of the imported document.
getSalons == sampleData.salons

\* A plausible slip: the collection is returned whole, as getStaffSchedules
\* returns the schedules.
getServicesUnfiltered(salonId) == sampleData.services

\* Query.getServices: filtered from the imported document, not from the file.
getServices(salonId) ==
    filter(sampleData.services, LAMBDA service : service.salonId = salonId)

\* Query.getStaff
getStaff(salonId) ==
    filter(sampleData.staff, LAMBDA staff : staff.salonId = salonId)

\* A plausible slip: only a staff member of the document has schedules.
getStaffSchedulesOfStaff(staffId) ==
    IF find(sampleData.staff, LAMBDA staff : staff.id = staffId) = Null
    THEN <<>>
    ELSE sampleData.schedules

\* Query.getStaffSchedules: the staff member's id is not used.
getStaffSchedules(staffId) == sampleData.schedules

\* A plausible slip: the list is taken from the imported snapshot of the
\* document instead of the document read from the file.
getBookingsFromImport(data, userId) ==
    filter(bookingsOf(sampleData), LAMBDA b : b.userId = userId)

\* Query.getBookings
getBookings(data, userId) ==
    filter(bookingsOf(data), LAMBDA b : b.userId = userId)

\* A plausible slip: the staff member is not validated.
createBookingUncheckedStaff(data, input, t) ==
    LET salon == find(data.salons, LAMBDA s : s.id = input.salonId)
        services == filter(data.services,
                           LAMBDA s : includes(input.serviceIds, s.id))
        staff == find(data.staff, LAMBDA s : s.id = input.staffId)
        booking == [id |-> "booking-" \o ToString(t),
                    userId |-> input.userId,
                    salon |-> salon,
                    services |-> services,
                    staff |-> staff,
                    time |-> input.time]
        pushed == ("bookings" :> Append(bookingsOf(data), booking)) @@ data
    IN  IF salon = Null \/ Len(services) = 0
        THEN Thrown("Invalid booking data", data)
        ELSE Returned(booking, pushed)

\* Mutation.createBooking
createBooking(data, input, t) ==
    LET salon == find(data.salons, LAMBDA s : s.id = input.salonId)
        services == filter(data.services,
                           LAMBDA s : includes(input.serviceIds, s.id))
        staff == find(data.staff, LAMBDA s : s.id = input.staffId)
        booking == [id |-> "booking-" \o ToString(t),
                    userId |-> input.userId,
                    salon |-> salon,
                    services |-> services,
                    staff |-> staff,
                    time |-> input.time]
        pushed == ("bookings" :> Append(bookingsOf(data), booking)) @@ data
    IN  IF salon = Null \/ staff = Null \/ Len(services) = 0
        THEN Thrown("Invalid booking data", data)
        ELSE Returned(booking, pushed)

\* The AuthResponse of a failure.
AuthFailure(message) == [success |-> FALSE, message |-> message, user |-> Null]

\* A plausible slip: the stored record, password included, is returned.
userWithPassword(u) == u

\* The user record returned to the caller (built field by field).
userWithoutPassword(u) ==
    [id |-> u.id, name |-> u.name, phone |-> u.phone, email |-> u.email]

\* A plausible slip: the email is looked up in the imported snapshot of the
\* document instead of the document read from the file.
existingUserInImport(data, input) ==
    find(sampleData.users, LAMBDA u : u.email = input.email)

\* register: data.users.find(u => u.email === email)
existingUser(data, input) ==
    find(data.users, LAMBDA u : u.email = input.email)

\* register: the user record to store.
newUser(input, t) ==
    [id |-> "user-" \o ToString(t),
     name |-> input.name,
     phone |-> input.phone,
     email |-> input.email,
     password |-> input.password]

\* The new user put in front of the others (unshift for push).
RegisteredInFront(data, input, t) ==
    Returned([success |-> TRUE,
              message |-> "Registration successful! Please login to continue.",
              user |-> userWithoutPassword(newUser(input, t))],
             [data EXCEPT !.users = << newUser(input, t) >> \o @])

\* register: the AuthResponse and the document of a success.
Registered(data, input, t) ==
    Returned([success |-> TRUE,
              message |-> "Registration successful! Please login to continue.",
              user |-> userWithoutPassword(newUser(input, t))],
             [data EXCEPT !.users = Append(@, newUser(input, t))])

\* A plausible slip: the phone length is checked before the blank fields.
registerPhoneCheckFirst(data, input, t) ==
    IF existingUser(data, input) # Null
    THEN Returned(AuthFailure(
             "Email already registered. Please login instead."), data)
    ELSE IF Len(input.phone) < 10
    THEN Returned(AuthFailure(
             "Phone number must be at least 10 digits"), data)
    ELSE IF \/ Len(input.name) = 0 \/ Len(input.phone) = 0
            \/ Len(input.email) = 0 \/ Len(input.password) = 0
    THEN Returned(AuthFailure("All fields are required"), data)
    ELSE IF ~includes(input.email, "@")
    THEN Returned(AuthFailure("Invalid email address"), data)
    ELSE IF Len(input.password) < 6
    THEN Returned(AuthFailure(
             "Password must be at least 6 characters"), data)
    ELSE Registered(data, input, t)

\* A plausible slip: the user is pushed and written before the password
\* length is checked.
registerWritesBeforePasswordCheck(data, input, t) ==
    IF existingUser(data, input) # Null
    THEN Returned(AuthFailure(
             "Email already registered. Please login instead."), data)
    ELSE IF \/ Len(input.name) = 0 \/ Len(input.phone) = 0
            \/ Len(input.email) = 0 \/ Len(input.password) = 0
    THEN Returned(AuthFailure("All fields are required"), data)
    ELSE IF Len(input.phone) < 10
    THEN Returned(AuthFailure(
             "Phone number must be at least 10 digits"), data)
    ELSE IF ~includes(input.email, "@")
    THEN Returned(AuthFailure("Invalid email address"), data)
    ELSE IF Len(input.password) < 6
    THEN Returned(AuthFailure(
             "Password must be at least 6 characters"),
             [data EXCEPT !.users = Append(@, newUser(input, t))])
    ELSE Registered(data, input, t)

\* Mutation.register: the checks return early in this order; a failure
\* returns before anything is pushed or written.
register(data, input, t) ==
    IF existingUser(data, input) # Null
    THEN Returned(AuthFailure(
             "Email already registered. Please login instead."), data)
    ELSE IF \/ Len(input.name) = 0 \/ Len(input.phone) = 0
            \/ Len(input.email) = 0 \/ Len(input.password) = 0
    THEN Returned(AuthFailure("All fields are required"), data)
    ELSE IF Len(input.phone) < 10
    THEN Returned(AuthFailure(
             "Phone number must be at least 10 digits"), data)
    ELSE IF ~includes(input.email, "@")
    THEN Returned(AuthFailure("Invalid email address"), data)
    ELSE IF Len(input.password) < 6
    THEN Returned(AuthFailure(
             "Password must be at least 6 characters"), data)
    ELSE Registered(data, input, t)

\* The AuthResponse of a successful login.
LoggedIn(user, data) ==
    Returned([success |-> TRUE,
              message |-> "Login successful!",
              user |-> userWithoutPassword(user)],
             data)

\* A plausible slip: the user is looked up by email alone.
loginByEmailOnly(data, input) ==
    LET user == find(data.users, LAMBDA u : u.email = input.email)
    IN  IF user = Null
        THEN Returned(AuthFailure("Invalid email or password"), data)
        ELSE LoggedIn(user, data)

\* A plausible slip: an unknown email gets a message of its own.
loginRevealingUnknownEmail(data, input) ==
    LET user == find(data.users,
                     LAMBDA u : u.email = input.email
                                  /\ u.password = input.password)
    IN  IF find(data.users, LAMBDA u : u.email = input.email) = Null
        THEN Returned(AuthFailure("No account found for this email"), data)
        ELSE IF user = Null
        THEN Returned(AuthFailure("Invalid email or password"), data)
        ELSE LoggedIn(user, data)

\* Mutation.login
login(data, input) ==
    LET user == find(data.users,
                     LAMBDA u : u.email = input.email
                                  /\ u.password = input.password)
    IN  IF user = Null
        THEN Returned(AuthFailure("Invalid email or password"), data)
        ELSE LoggedIn(user, data)

\* ------------------------------------------------------------------ actions
\* await delay(ms): the call resumes at the current clock reading or a later
\* one (calls in flight together can resume within the same millisecond).
delay(t) == t \in now..(now + 1) /\ t <= MaxClock /\ now' = t

\* The call that completed, as its caller sees it: its arguments and what it
\* returned or threw, each as a record (a returned list is the field
\* `bookings` of the value).
Completed(op, input, r) ==
    last' = [op |-> op, input |-> input, thrown |-> r.thrown,
             value |-> r.value]

GetBookings(userId) ==
    \E t \in 0..MaxClock :
        /\ delay(t)
        /\ LET data == readData
           IN  Completed("getBookings", [userId |-> userId],
                         Returned([bookings |-> getBookings(data, userId)],
                                  data))
        /\ UNCHANGED <<file, created, ui, calls, hurry, unseen>>

CreateBooking(input) ==
    \E t \in 0..MaxClock :
        /\ delay(t)
        /\ LET data == readData
               r == createBooking(data, input, t)
           IN  /\ Len(bookingsOf(r.data)) <= MaxBookings
               /\ Completed("createBooking", input, r)
               /\ writeIfChanged(data, r.data)
               /\ created' = IF r.thrown
                             THEN created
                             ELSE created \cup
                                  {[input |-> input, booking |-> r.value]}
        /\ UNCHANGED ctl

Register(input) ==
    \E t \in 0..MaxClock :
        /\ delay(t)
        /\ LET data == readData
               r == register(data, input, t)
           IN  /\ Completed("register", input, r)
               /\ writeIfChanged(data, r.data)
        /\ UNCHANGED <<created, ui, calls, hurry, unseen>>

Login(input) ==
    \E t \in 0..MaxClock :
        /\ delay(t)
        /\ LET data == readData
           IN  Completed("login", input, login(data, input))
        /\ UNCHANGED <<file, created, ui, calls, hurry, unseen>>

Init ==
    /\ file \in {sampleData, sampleDataNoBookings}
    /\ now = 0
    /\ last = [op |-> "none", input |-> Null, thrown |-> FALSE, value |-> Null]
    /\ created = {}
    /\ ui = InitialUi
    /\ calls = EmptyBag
    /\ hurry = 0
    /\ unseen = {}

Next ==
    \/ \E userId \in UserIds : GetBookings(userId)
    \/ \E input \in BookingInputs : CreateBooking(input)
    \/ \E input \in Registrations : Register(input)
    \/ \E input \in LoginInputs : Login(input)

Spec == Init /\ [][Next]_vars

\* register applied to every combination of field values.
NextRegister == \E input \in RegisterInputs : Register(input)

SpecRegister == Init /\ [][NextRegister]_vars

\* The filtering queries, with bookings made for either user in between.
GetServices(salonId) ==
    \E t \in 0..MaxClock :
        /\ delay(t)
        /\ Completed("getServices", [salonId |-> salonId],
                     Returned([services |-> getServices(salonId)], readData))
        /\ UNCHANGED <<file, created, ui, calls, hurry, unseen>>

GetStaff(salonId) ==
    \E t \in 0..MaxClock :
        /\ delay(t)
        /\ Completed("getStaff", [salonId |-> salonId],
                     Returned([staff |-> getStaff(salonId)], readData))
        /\ UNCHANGED <<file, created, ui, calls, hurry, unseen>>

GetStaffSchedules(staffId) ==
    \E t \in 0..MaxClock :
        /\ delay(t)
        /\ Completed("getStaffSchedules", [staffId |-> staffId],
                     Returned([schedules |-> getStaffSchedules(staffId)],
                              readData))
        /\ UNCHANGED <<file, created, ui, calls, hurry, unseen>>

NextQueries ==
    \/ \E salonId \in SalonIds : GetServices(salonId)
    \/ \E salonId \in SalonIds : GetStaff(salonId)
    \/ \E staffId \in StaffIds : GetStaffSchedules(staffId)
    \/ \E userId \in UserIds : GetBookings(userId)
    \/ \E input \in QueryBookingInputs : CreateBooking(input)

SpecQueries == Init /\ [][NextQueries]_vars

\* Bookings across salons, and their readers.
NextCrossSalon ==
    \/ \E input \in CrossSalonInputs : CreateBooking(input)
    \/ \E userId \in UserIds : GetBookings(userId)

SpecCrossSalon == Init /\ [][NextCrossSalon]_vars

\* The data store on its own: any valid document is written, and the file is
\* read back any number of times.
StoredUserLists ==
    { SeedUsers,
      Append(SeedUsers, newUser([name |-> <<"A">>, phone |-> Rep("5", 10),
                                 email |-> NewEmail1,
                                 password |-> Rep("x", 6)], 0)),
      Append(SeedUsers, newUser([name |-> <<"A">>, phone |-> Rep("5", 10),
                                 email |-> NewEmail2,
                                 password |-> Rep("x", 6)], 1)),
      Append(Append(SeedUsers,
                    newUser([name |-> <<"A">>, phone |-> Rep("5", 10),
                             email |-> NewEmail1,
                             password |-> Rep("x", 6)], 0)),
             newUser([name |-> <<"A">>, phone |-> Rep("5", 10),
                      email |-> NewEmail2, password |-> Rep("x", 6)], 1)) }

\* Bookings as createBooking builds them: for either user, of one service or
\* of two.
StoredBookings ==
    { createBooking(sampleData, input, 0).value :
          input \in QueryBookingInputs \cup
                    { [userId |-> "1", salonId |-> "salon1",
                       serviceIds |-> <<"svc2", "svc1">>,
                       staffId |-> "staff1", time |-> "12:00 PM"] } }

StoredBookingLists ==
    UNION { [1..n -> StoredBookings] : n \in 0..MaxBookings }

\* The documents of the layout the resolvers keep: the seed collections, a
\* users list, and a bookings list or no bookings key.
Documents ==
    { [sampleData EXCEPT !.users = users, !.bookings = bookings] :
          users \in StoredUserLists, bookings \in StoredBookingLists }
    \cup
    { [sampleDataNoBookings EXCEPT !.users = users] :
          users \in StoredUserLists }

WriteData(data) ==
    /\ writeData(data)
    /\ last' = [op |-> "writeData", input |-> [data |-> data],
                thrown |-> FALSE, value |-> Null]
    /\ UNCHANGED <<now, created, ui, calls, hurry, unseen>>

ReadData ==
    /\ last' = [op |-> "readData", input |-> Null, thrown |-> FALSE,
                value |-> [data |-> readData]]
    /\ UNCHANGED <<file, now, created, ui, calls, hurry, unseen>>

NextStore ==
    \/ \E data \in Documents : WriteData(data)
    \/ ReadData

SpecStore == Init /\ [][NextStore]_vars

\* ------------------------------------------------------- service client
\* A call of mockGraphQL in flight: the operation and its variables, the
\* handler that awaits it, and the step the component is in while it waits.
Call(op, input, handler, from) ==
    [op |-> op, input |-> input, handler |-> handler, from |-> from,
     served |-> FALSE, response |-> Null]

\* The fields the createBooking and getBookings documents select.
selectBooking(b) ==
    [id |-> b.id, userId |-> b.userId,
     salon |-> [id |-> b.salon.id, name |-> b.salon.name],
     services |-> [i \in 1..Len(b.services) |->
                      [id |-> b.services[i].id, name |-> b.services[i].name,
                       price |-> b.services[i].price]],
     staff |-> [id |-> b.staff.id, name |-> b.staff.name],
     time |-> b.time]

\* result.data.<operation>: what the client hands to its caller.
clientValue(op, value) ==
    CASE op = "createBooking" -> selectBooking(value)
      [] op = "getBookings" ->
             [bookings |-> [i \in 1..Len(value.bookings) |->
                               selectBooking(value.bookings[i])]]
      [] OTHER -> value

\* The resolver a call reaches, run on the document it reads at time t.
serve(data, call, t) ==
    CASE call.op = "getSalons" -> Returned([salons |-> getSalons], data)
      [] call.op = "getServices" ->
             Returned([services |-> getServices(call.input.salonId)], data)
      [] call.op = "getStaff" ->
             Returned([staff |-> getStaff(call.input.salonId)], data)
      [] call.op = "getStaffSchedules" ->
             Returned([schedules |-> getStaffSchedules(call.input.staffId)],
                      data)
      [] call.op = "getBookings" ->
             Returned([bookings |-> getBookings(data, call.input.userId)],
                      data)
      [] call.op = "createBooking" -> createBooking(data, call.input, t)
      [] call.op = "register" -> register(data, call.input, t)
      [] call.op = "login" -> login(data, call.input)

\* ------------------------------------------------------ resolver processes
\* A mutation being resolved in a server process: after `await delay` it is
\* waiting to run ("delay"); having run readData() it holds the document it
\* read and the clock reading it will use ("read"); writeData and return
\* end it.
Invocation(process, op, input) ==
    [process |-> process, op |-> op, input |-> input, phase |-> "delay",
     data |-> Null, t |-> 0]

\* The mutations sent to the processes: a booking and a registration.
Mutations ==
    { [op |-> "createBooking",
       input |-> [userId |-> "1", salonId |-> "salon1",
                  serviceIds |-> <<"svc1">>, staffId |-> "staff1",
                  time |-> "10:00 AM"]],
      [op |-> "register",
       input |-> [name |-> <<"A">>, phone |-> Rep("5", 10),
                  email |-> NewEmail1, password |-> Rep("x", 6)]] }

\* As if an await stood between readData() and writeData(data).
RunsAloneNever(process) == TRUE

\* The code from readData() to writeData(data) and return holds no await:
\* a process runs it to completion before it takes up anything else.
RunsAlone(process) ==
    \A c \in BagToSet(calls) : c.process = process => c.phase = "delay"

\* The resolver of an invocation, run on the document the file holds now.
resolvedOnFile(c) ==
    IF c.op = "createBooking"
    THEN createBooking(readData, c.input, c.t)
    ELSE register(readData, c.input, c.t)

\* The resolver of an invocation, run on the document it read.
resolved(c) ==
    IF c.op = "createBooking"
    THEN createBooking(c.data, c.input, c.t)
    ELSE register(c.data, c.input, c.t)

Arrive(process, mutation) ==
    /\ RunsAlone(process)
    /\ BagCardinality(calls) < MaxInFlight
    /\ mutation.op = "createBooking" =>
           Len(bookingsOf(readData)) + BagCardinality(calls) < MaxBookings
    /\ calls' = calls (+) SetToBag({ Invocation(process, mutation.op,
                                                mutation.input) })
    /\ UNCHANGED <<file, now, last, created, ui, hurry, unseen>>

\* const data = readData(), with the Date.now() of this run.
Read(process) ==
    \E c \in BagToSet(calls) : \E t \in 0..MaxClock :
        /\ c.process = process
        /\ c.phase = "delay"
        /\ RunsAlone(process)
        /\ delay(t)
        /\ calls' = (calls (-) SetToBag({c}))
                        (+) SetToBag({[c EXCEPT !.phase = "read",
                                                !.data = readData,
                                                !.t = t]})
        /\ UNCHANGED <<file, last, created, ui, hurry, unseen>>

\* The rest of the resolver: it throws or returns, having written the
\* document it read and changed.
Write(process) ==
    \E c \in BagToSet(calls) :
        /\ c.process = process
        /\ c.phase = "read"
        /\ LET r == resolved(c)
           IN  /\ Len(bookingsOf(r.data)) <= MaxBookings
               /\ writeIfChanged(c.data, r.data)
               /\ Completed(c.op, c.input, r)
               /\ created' = IF c.op = "createBooking" /\ ~r.thrown
                             THEN created \cup
                                  {[input |-> c.input, booking |-> r.value]}
                             ELSE created
        /\ calls' = calls (-) SetToBag({c})
        /\ UNCHANGED <<now, ui, hurry, unseen>>

\* One server: several mutations in flight in one process.
NextOneProcess ==
    \/ \E mutation \in Mutations : Arrive("server1", mutation)
    \/ Read("server1")
    \/ Write("server1")

SpecOneProcess == Init /\ [][NextOneProcess]_vars

\* Two servers started on the same data/sampleData.json.
Servers == { "server1", "server2" }

NextTwoProcesses ==
    \/ \E process \in Servers : \E mutation \in Mutations :
           Arrive(process, mutation)
    \/ \E process \in Servers : Read(process)
    \/ \E process \in Servers : Write(process)

SpecTwoProcesses == Init /\ [][NextTwoProcesses]_vars

\* ------------------------------------------------------- mock transports
\* graphql.mutation('CreateBooking', ({ variables }) => ...): salonId,
\* serviceIds, staffId and time are destructured from the variables of the
\* request; the lookups go to the imported document; nothing is checked and
\* nothing is written.  serviceIds.includes of undefined throws a TypeError
\* in the filter.  A salon or staff member not found is undefined.
mswCreateBooking(variables, t) ==
    IF "serviceIds" \notin DOMAIN variables
    THEN Thrown("Cannot read properties of undefined (reading 'includes')",
                readData)
    ELSE Returned(
             [id |-> "booking-" \o ToString(t),
              salon |-> find(sampleData.salons,
                             LAMBDA s : s.id = variables.salonId),
              services |-> filter(sampleData.services,
                                  LAMBDA s : includes(variables.serviceIds,
                                                      s.id)),
              staff |-> find(sampleData.staff,
                             LAMBDA s : s.id = variables.staffId),
              time |-> variables.time],
             readData)

\* mockGraphQLResolver.createBooking(params)
nativeCreateBooking(params, t) ==
    Returned(
        [id |-> "booking-" \o ToString(t),
         salon |-> find(sampleData.salons, LAMBDA s : s.id = params.salonId),
         services |-> filter(sampleData.services,
                             LAMBDA s : includes(params.serviceIds, s.id)),
         staff |-> find(sampleData.staff, LAMBDA s : s.id = params.staffId),
         time |-> params.time],
        readData)

\* The variables of a CreateBooking request: the document of the service
\* client declares $input, the handler reads the fields at the top.
RequestVariables(input) == { [input |-> input], input }

MswCreateBooking(input) ==
    \E t \in 0..MaxClock : \E variables \in RequestVariables(input) :
        /\ delay(t)
        /\ Completed("mswCreateBooking", input, mswCreateBooking(variables, t))
        /\ UNCHANGED <<file, created, ui, calls, hurry, unseen>>

NativeCreateBooking(input) ==
    \E t \in 0..MaxClock :
        /\ delay(t)
        /\ Completed("nativeCreateBooking", input,
                     nativeCreateBooking(input, t))
        /\ UNCHANGED <<file, created, ui, calls, hurry, unseen>>

\* createBooking through each of its three realisations.
NextTransports ==
    \/ \E input \in BookingInputs : CreateBooking(input)
    \/ \E input \in BookingInputs : MswCreateBooking(input)
    \/ \E input \in BookingInputs : NativeCreateBooking(input)

SpecTransports == Init /\ [][NextTransports]_vars

\* ------------------------------------------------------------- controller
\* A handler is a function of the component state it was rendered with: it
\* yields the state after the part that runs at once, and the calls it
\* issues; the part after `await` is the handler's ...Resumed operator.
Did(u, issued) == [ui |-> u, issued |-> issued]

\* One handler after another.
Then(d, handler(_)) ==
    LET e == handler(d.ui) IN Did(e.ui, d.issued \o e.issued)

\* setSelectedSalon(null); setSelectedServices([]); setSelectedStaff(null);
\* setSelectedSchedule(null)
clearSelections(u) ==
    [u EXCEPT !.selectedSalon = Null, !.selectedServices = <<>>,
              !.selectedStaff = Null, !.selectedSchedule = Null]

loadSalons(u) ==
    Did([u EXCEPT !.loading = TRUE],
        << Call("getSalons", Null, "loadSalons", u.step) >>)

loadSalonsResumed(u, value) ==
    [u EXCEPT !.salons = value.salons, !.loading = FALSE]

loadMyBookings(u) ==
    IF u.currentUser = Null
    THEN Did(u, <<>>)
    ELSE Did(u, << Call("getBookings", [userId |-> u.currentUser.id],
                        "loadMyBookings", u.step) >>)

loadMyBookingsResumed(u, value) == [u EXCEPT !.myBookings = value.bookings]

\* useEffect(..., [isAuthenticated, currentUser])
authEffect(u) ==
    IF u.isAuthenticated /\ u.currentUser # Null
    THEN Then(loadSalons(u), loadMyBookings)
    ELSE Did(u, <<>>)

\* onChangeText={setEmail}, onChangeText={setPassword}
typeLogin(u, credentials) ==
    [u EXCEPT !.email = credentials.email, !.password = credentials.password]

handleLogin(u) ==
    Did(u, << Call("login", [email |-> u.email, password |-> u.password],
                   "handleLogin", u.step) >>)

\* A plausible slip: the response is not inspected.
handleLoginResumedUnchecked(u, response) ==
    Then(loadSalons([clearSelections(u) EXCEPT
                         !.isAuthenticated = TRUE,
                         !.currentUser = response.user,
                         !.step = "salon",
                         !.email = <<>>,
                         !.password = <<>>]),
         authEffect)

handleLoginResumed(u, response) ==
    IF response.success /\ response.user # Null
    THEN Then(loadSalons([clearSelections(u) EXCEPT
                              !.isAuthenticated = TRUE,
                              !.currentUser = response.user,
                              !.step = "salon",
                              !.email = <<>>,
                              !.password = <<>>]),
              authEffect)
    ELSE Did(u, <<>>)

\* The onChangeText setters of the five signup fields.
typeSignup(u, form) ==
    [u EXCEPT !.signupName = form.name, !.signupPhone = form.phone,
              !.signupEmail = form.email, !.signupPassword = form.password,
              !.signupConfirmPassword = form.confirmPassword]

\* handleSignup without the comparison of the two passwords.
handleSignupUnchecked(u) ==
    Did([u EXCEPT !.loading = TRUE],
        << Call("register",
                [name |-> u.signupName, phone |-> u.signupPhone,
                 email |-> u.signupEmail, password |-> u.signupPassword],
                "handleSignup", u.step) >>)

handleSignup(u) ==
    IF u.signupPassword # u.signupConfirmPassword
    THEN Did(u, <<>>)
    ELSE Did([u EXCEPT !.loading = TRUE],
             << Call("register",
                     [name |-> u.signupName, phone |-> u.signupPhone,
                      email |-> u.signupEmail, password |-> u.signupPassword],
                     "handleSignup", u.step) >>)

\* signupEmail is the value of the render handleSignup was called in: the
\* email the register call carries.
handleSignupResumed(u, signupEmail, rejected, response) ==
    IF ~rejected /\ response.success
    THEN [u EXCEPT !.email = signupEmail,
                   !.signupName = <<>>, !.signupPhone = <<>>,
                   !.signupEmail = <<>>, !.signupPassword = <<>>,
                   !.signupConfirmPassword = <<>>,
                   !.step = "login", !.loading = FALSE]
    ELSE [u EXCEPT !.loading = FALSE]

\* A plausible slip: the local booking list is kept.
handleLogoutKeepingBookings(u) ==
    [clearSelections(u) EXCEPT !.isAuthenticated = FALSE,
                               !.currentUser = Null,
                               !.step = "login",
                               !.email = <<>>,
                               !.password = <<>>]

handleLogout(u) ==
    [clearSelections(u) EXCEPT !.isAuthenticated = FALSE,
                               !.currentUser = Null,
                               !.step = "login",
                               !.email = <<>>,
                               !.password = <<>>,
                               !.myBookings = <<>>]

\* The effect resetting the step only.
tabEffectKeepingSelections(u) ==
    IF /\ u.activeTab = "home"
       /\ u.isAuthenticated
       /\ u.step \notin { "login", "signup", "salon" }
    THEN [u EXCEPT !.step = "salon"]
    ELSE u

\* useEffect(..., [activeTab])
tabEffect(u) ==
    IF /\ u.activeTab = "home"
       /\ u.isAuthenticated
       /\ u.step \notin { "login", "signup", "salon" }
    THEN [clearSelections(u) EXCEPT !.step = "salon"]
    ELSE u

\* onTabChange={setActiveTab}: the effect runs when the tab has changed.
setActiveTab(u, tab) ==
    IF tab = u.activeTab THEN u ELSE tabEffect([u EXCEPT !.activeTab = tab])

handleSalonSelect(u, salon) ==
    Did([u EXCEPT !.selectedSalon = salon, !.loading = TRUE],
        << Call("getServices", [salonId |-> salon.id], "handleSalonSelect",
                u.step) >>)

handleSalonSelectResumed(u, value) ==
    [u EXCEPT !.services = value.services, !.loading = FALSE,
              !.step = "services"]

\* toggleService that only ever adds.
toggleServiceAdding(selectedServices, service) ==
    Append(selectedServices, service)

toggleService(selectedServices, service) ==
    IF find(selectedServices, LAMBDA s : s.id = service.id) # Null
    THEN filter(selectedServices, LAMBDA s : s.id # service.id)
    ELSE Append(selectedServices, service)

\* selectedServices.reduce((sum, s) => sum + s.price, 0) over the first n
\* elements.
RECURSIVE reducePrices(_, _)
reducePrices(selectedServices, n) ==
    IF n = 0 THEN 0
    ELSE reducePrices(selectedServices, n - 1) + selectedServices[n].price

\* The reduce started at the first price instead of 0, the first element
\* then being skipped.
getTotalPriceSkippingFirst(selectedServices) ==
    IF selectedServices = <<>> THEN 0
    ELSE reducePrices(Tail(selectedServices), Len(selectedServices) - 1)

getTotalPrice(selectedServices) ==
    reducePrices(selectedServices, Len(selectedServices))

\* proceedToStaff without the check of the selection.
proceedToStaffUnchecked(u) ==
    IF u.selectedSalon = Null
    THEN Did([u EXCEPT !.loading = TRUE], <<>>)
    ELSE Did([u EXCEPT !.loading = TRUE],
             << Call("getStaff", [salonId |-> u.selectedSalon.id],
                     "proceedToStaff", u.step) >>)

\* selectedSalon!.id of no salon throws after setLoading(true).
proceedToStaff(u) ==
    IF Len(u.selectedServices) = 0
    THEN Did(u, <<>>)
    ELSE IF u.selectedSalon = Null
         THEN Did([u EXCEPT !.loading = TRUE], <<>>)
         ELSE Did([u EXCEPT !.loading = TRUE],
                  << Call("getStaff", [salonId |-> u.selectedSalon.id],
                          "proceedToStaff", u.step) >>)

proceedToStaffResumed(u, value) ==
    [u EXCEPT !.staff = value.staff, !.loading = FALSE, !.step = "staff"]

handleStaffSelect(u, staffMember) ==
    Did([u EXCEPT !.selectedStaff = staffMember, !.loading = TRUE],
        << Call("getStaffSchedules", [staffId |-> staffMember.id],
                "handleStaffSelect", u.step) >>)

handleStaffSelectResumed(u, value) ==
    [u EXCEPT !.schedules = value.schedules, !.loading = FALSE,
              !.step = "schedule"]

\* handleScheduleSelect without the check of isAvailable.
handleScheduleSelectUnchecked(u, schedule) ==
    [u EXCEPT !.selectedSchedule = schedule, !.step = "confirmation"]

handleScheduleSelect(u, schedule) ==
    IF ~schedule.isAvailable
    THEN u
    ELSE [u EXCEPT !.selectedSchedule = schedule, !.step = "confirmation"]

\* confirmBooking sending the ids of every service on offer.
confirmBookingAllServices(u) ==
    IF \/ u.currentUser = Null
       \/ u.selectedSalon = Null
       \/ u.selectedStaff = Null
       \/ u.selectedSchedule = Null
    THEN Did([u EXCEPT !.loading = FALSE], <<>>)
    ELSE Did([u EXCEPT !.loading = TRUE],
             << Call("createBooking",
                     [userId |-> u.currentUser.id,
                      salonId |-> u.selectedSalon.id,
                      serviceIds |-> [i \in 1..Len(u.services) |->
                                         u.services[i].id],
                      staffId |-> u.selectedStaff.id,
                      time |-> u.selectedSchedule.time],
                     "confirmBooking", u.step) >>)

\* The arguments are built inside the try block: currentUser!.id (and the
\* like) of null throws, is caught, and setLoading(false) follows.
\* A plausible slip: the slot's id is sent where its time belongs.
confirmBookingSlotId(u) ==
    IF \/ u.currentUser = Null
       \/ u.selectedSalon = Null
       \/ u.selectedStaff = Null
       \/ u.selectedSchedule = Null
    THEN Did([u EXCEPT !.loading = FALSE], <<>>)
    ELSE Did([u EXCEPT !.loading = TRUE],
             << Call("createBooking",
                     [userId |-> u.currentUser.id,
                      salonId |-> u.selectedSalon.id,
                      serviceIds |-> [i \in 1..Len(u.selectedServices) |->
                                         u.selectedServices[i].id],
                      staffId |-> u.selectedStaff.id,
                      time |-> u.selectedSchedule.id],
                     "confirmBooking", u.step) >>)

confirmBooking(u) ==
    IF \/ u.currentUser = Null
       \/ u.selectedSalon = Null
       \/ u.selectedStaff = Null
       \/ u.selectedSchedule = Null
    THEN Did([u EXCEPT !.loading = FALSE], <<>>)
    ELSE Did([u EXCEPT !.loading = TRUE],
             << Call("createBooking",
                     [userId |-> u.currentUser.id,
                      salonId |-> u.selectedSalon.id,
                      serviceIds |-> [i \in 1..Len(u.selectedServices) |->
                                         u.selectedServices[i].id],
                      staffId |-> u.selectedStaff.id,
                      time |-> u.selectedSchedule.time],
                     "confirmBooking", u.step) >>)

\* confirmBooking without its catch block.
confirmBookingResumedUncaught(u, rejected, booking) ==
    IF rejected
    THEN u
    ELSE [u EXCEPT !.myBookings = Append(@, booking), !.step = "success",
                   !.loading = FALSE]

confirmBookingResumed(u, rejected, booking) ==
    IF rejected
    THEN [u EXCEPT !.loading = FALSE]
    ELSE [u EXCEPT !.myBookings = Append(@, booking), !.step = "success",
                   !.loading = FALSE]

\* A plausible slip: the reset forgets to reload the salons.
resetBookingWithoutReload(u) ==
    Did([clearSelections(u) EXCEPT !.step = "salon"], <<>>)

resetBooking(u) == loadSalons([clearSelections(u) EXCEPT !.step = "salon"])

\* handleBack that keeps the selection of the step it leaves.
handleBackKeepingSelections(u) ==
    CASE u.step = "services" -> Did([u EXCEPT !.step = "salon"], <<>>)
      [] u.step = "staff" -> Did([u EXCEPT !.step = "services"], <<>>)
      [] u.step = "schedule" -> Did([u EXCEPT !.step = "staff"], <<>>)
      [] u.step = "confirmation" -> Did([u EXCEPT !.step = "schedule"], <<>>)
      [] u.step = "success" -> resetBooking(u)
      [] OTHER -> Did(u, <<>>)

handleBack(u) ==
    CASE u.step = "services" ->
             Did([u EXCEPT !.step = "salon", !.selectedServices = <<>>], <<>>)
      [] u.step = "staff" ->
             Did([u EXCEPT !.step = "services", !.selectedStaff = Null], <<>>)
      [] u.step = "schedule" ->
             Did([u EXCEPT !.step = "staff", !.selectedSchedule = Null], <<>>)
      [] u.step = "confirmation" -> Did([u EXCEPT !.step = "schedule"], <<>>)
      [] u.step = "success" -> resetBooking(u)
      [] OTHER -> Did(u, <<>>)

shouldShowBack(u) ==
    u.step \notin { "salon", "login", "signup", "success" }

\* The part of the awaiting handler that runs when the call settles.  A
\* rejection no handler catches (loadSalons, handleSalonSelect,
\* proceedToStaff, handleStaffSelect) ends the handler where it stands.
resume(u, call, rejected, value) ==
    CASE call.handler = "handleLogin" ->
             IF rejected THEN Did(u, <<>>) ELSE handleLoginResumed(u, value)
      [] call.handler = "handleSignup" ->
             Did(handleSignupResumed(u, call.input.email, rejected, value),
                 <<>>)
      [] call.handler = "confirmBooking" ->
             Did(confirmBookingResumed(u, rejected, value), <<>>)
      [] call.handler = "loadMyBookings" ->
             Did(IF rejected THEN u ELSE loadMyBookingsResumed(u, value), <<>>)
      [] call.handler = "loadSalons" ->
             Did(IF rejected THEN u ELSE loadSalonsResumed(u, value), <<>>)
      [] call.handler = "handleSalonSelect" ->
             Did(IF rejected THEN u ELSE handleSalonSelectResumed(u, value),
                 <<>>)
      [] call.handler = "proceedToStaff" ->
             Did(IF rejected THEN u ELSE proceedToStaffResumed(u, value), <<>>)
      [] call.handler = "handleStaffSelect" ->
             Did(IF rejected THEN u ELSE handleStaffSelectResumed(u, value),
                 <<>>)

\* ------------------------------------------------------ controller actions
\* What the user types into the login form and the signup form.
Credentials ==
    { [email |-> DemoEmail, password |-> DemoPassword],
      [email |-> DemoEmail, password |-> Rep("x", 6)] }

SignupForms ==
    [name : { <<"A">> }, phone : { Rep("5", 10) }, email : { NewEmail1 },
     password : { Rep("x", 6) },
     confirmPassword : { Rep("x", 6), Rep("x", 5) }]

\* What the user picks in the lists shown: one salon and one of the slots
\* that can be picked.
PickedSalons == { "salon1" }
OtherSalons == { "salon2" }
PickedSlots == { "sch1" }

\* The calls of a list, as a bag.
bagOf(issued) ==
    [c \in { issued[i] : i \in 1..Len(issued) } |->
        Cardinality({ i \in 1..Len(issued) : issued[i] = c })]

\* A press or tap: the handler's immediate part runs and its calls start.
\* `last` names the handler, what was pressed and the step it was pressed
\* in.  Acting while a call is in flight takes one of the user's hurries.
Act(handler, input, d) ==
    /\ IF \A c \in BagToSet(calls) : c.handler \in unseen
       THEN UNCHANGED hurry
       ELSE hurry > 0 /\ hurry' = hurry - 1
    /\ UNCHANGED unseen
    /\ ui' = d.ui
    /\ calls' = calls (+) bagOf(d.issued)
    /\ BagCardinality(calls') <= MaxPending
    /\ last' = [op |-> handler, input |-> input, thrown |-> FALSE,
                value |-> Null, from |-> ui.step]
    /\ UNCHANGED <<file, now, created>>

\* The screens: the auth screens show neither the app bar nor the tabs;
\* the home tab shows the current step unless loading is set.
AuthScreen == ui.step \in { "login", "signup" }
HomeShows(step) ==
    ui.step = step /\ ui.activeTab = "home" /\ ~ui.loading

PressLogin ==
    /\ ui.step = "login"
    /\ \E credentials \in Credentials :
           Act("handleLogin", credentials,
               handleLogin(typeLogin(ui, credentials)))

SwitchToSignup ==
    /\ ui.step = "login"
    /\ Act("setStep", [step |-> "signup"],
           Did([ui EXCEPT !.step = "signup"], <<>>))

SwitchToLogin ==
    /\ ui.step = "signup"
    /\ Act("setStep", [step |-> "login"],
           Did([ui EXCEPT !.step = "login",
                          !.signupName = <<>>, !.signupPhone = <<>>,
                          !.signupEmail = <<>>, !.signupPassword = <<>>,
                          !.signupConfirmPassword = <<>>], <<>>))

PressSignUp ==
    /\ ui.step = "signup"
    /\ \E form \in SignupForms :
           Act("handleSignup", form, handleSignup(typeSignup(ui, form)))

PressLogout ==
    /\ ~AuthScreen
    /\ ui.activeTab = "profile"
    /\ Act("handleLogout", Null, Then(Did(handleLogout(ui), <<>>), authEffect))

\* Pressing the tab that is active leaves the state as it is.
PressTab ==
    /\ ~AuthScreen
    /\ \E tab \in Tabs \ { ui.activeTab } :
           Act("setActiveTab", [tab |-> tab], Did(setActiveTab(ui, tab), <<>>))

PressBack ==
    /\ ~AuthScreen
    /\ shouldShowBack(ui)
    /\ Act("handleBack", Null, handleBack(ui))

PickSalon ==
    /\ HomeShows("salon")
    /\ \E i \in 1..Len(ui.salons) :
           /\ ui.salons[i].id \in PickedSalons
           /\ Act("handleSalonSelect", ui.salons[i],
                  handleSalonSelect(ui, ui.salons[i]))

\* The user picks one of the other salons of the list.
PickOtherSalon ==
    /\ HomeShows("salon")
    /\ \E i \in 1..Len(ui.salons) :
           /\ ui.salons[i].id \in OtherSalons
           /\ Act("handleSalonSelect", ui.salons[i],
                  handleSalonSelect(ui, ui.salons[i]))

TapService ==
    /\ HomeShows("services")
    /\ \E i \in 1..Len(ui.services) :
           Act("toggleService", ui.services[i],
               Did([ui EXCEPT !.selectedServices =
                                  toggleService(@, ui.services[i])], <<>>))

PressContinue ==
    /\ HomeShows("services")
    /\ Act("proceedToStaff", Null, proceedToStaff(ui))

PickStaff ==
    /\ HomeShows("staff")
    /\ \E i \in 1..Len(ui.staff) :
           Act("handleStaffSelect", ui.staff[i],
               handleStaffSelect(ui, ui.staff[i]))

\* The slots that are not available are disabled buttons.
PickSlot ==
    /\ HomeShows("schedule")
    /\ \E i \in 1..Len(ui.schedules) :
           /\ ui.schedules[i].isAvailable
           /\ ui.schedules[i].id \in PickedSlots
           /\ Act("handleScheduleSelect", ui.schedules[i],
                  Did(handleScheduleSelect(ui, ui.schedules[i]), <<>>))

PressConfirm ==
    /\ HomeShows("confirmation")
    /\ Cardinality(created) < MaxConfirmed
    /\ Act("confirmBooking", Null, confirmBooking(ui))

PressBookAnother ==
    /\ HomeShows("success")
    /\ Act("resetBooking", Null, resetBooking(ui))

\* resetBooking(); setActiveTab('bookings')
PressViewMyBookings ==
    /\ HomeShows("success")
    /\ Act("resetBooking", [tab |-> "bookings"],
           LET d == resetBooking(ui)
           IN  Did(setActiveTab(d.ui, "bookings"), d.issued))

\* A call settles: the request reaches its resolver, which runs on the file,
\* or it does not (the fetch rejects); a resolver that throws leaves the
\* client without result.data, so the call rejects as well.  The awaiting
\* handler then runs to its end.  (The clock is read by createBooking and
\* register only, so only their delay is taken to advance it.)
Settle ==
    \E call \in BagToSet(calls) : \E ok \in BOOLEAN : \E t \in 0..MaxClock :
        /\ call.served => ok
        /\ IF ok /\ ~call.served /\ call.op \in { "createBooking", "register" }
           THEN delay(t)
           ELSE t = now /\ UNCHANGED now
        /\ LET data == readData
               r == IF call.served
                    THEN [thrown |-> call.response.thrown,
                          value |-> call.response.value, data |-> data]
                    ELSE IF ok THEN serve(data, call, t)
                    ELSE Thrown("Network request failed", data)
               value == IF r.thrown \/ call.served THEN r.value
                        ELSE clientValue(call.op, r.value)
               d == resume(ui, call, r.thrown, value)
           IN  /\ Len(bookingsOf(r.data)) <= MaxBookings
               /\ writeIfChanged(data, r.data)
               /\ ui' = d.ui
               /\ calls' = (calls (-) SetToBag({call})) (+) bagOf(d.issued)
               /\ BagCardinality(calls') <= MaxPending
               /\ last' = [op |-> call.op, input |-> call.input,
                           thrown |-> r.thrown, value |-> value,
                           from |-> call.from]
               /\ created' = IF /\ call.op = "createBooking"
                                /\ ~r.thrown
                                /\ ~call.served
                             THEN created \cup
                                  {[input |-> call.input, booking |-> r.value]}
                             ELSE created
               /\ UNCHANGED <<hurry, unseen>>

\* The request of a call reaches its resolver, whose response is under way
\* to the client: the resolver has run on the file as it was then.  Told
\* apart from Settle for the calls the user does not wait for: for the
\* others the user does nothing between the two.
Serve ==
    \E call \in BagToSet(calls) : \E t \in 0..MaxClock :
        /\ ~call.served
        /\ call.handler \in unseen
        /\ IF call.op \in { "createBooking", "register" }
           THEN delay(t)
           ELSE t = now /\ UNCHANGED now
        /\ LET data == readData
               r == serve(data, call, t)
               value == IF r.thrown THEN r.value
                        ELSE clientValue(call.op, r.value)
               response == [thrown |-> r.thrown, value |-> value]
           IN  /\ Len(bookingsOf(r.data)) <= MaxBookings
               /\ writeIfChanged(data, r.data)
               /\ calls' = (calls (-) SetToBag({call}))
                               (+) SetToBag({[call EXCEPT
                                                 !.served = TRUE,
                                                 !.response = response]})
               /\ created' = IF call.op = "createBooking" /\ ~r.thrown
                             THEN created \cup
                                  {[input |-> call.input, booking |-> r.value]}
                             ELSE created
               /\ UNCHANGED <<ui, last, hurry, unseen>>

\* A booking of the demo user made in an earlier session.
EarlierBooking ==
    createBooking(sampleData,
                  [userId |-> "1", salonId |-> "salon1",
                   serviceIds |-> <<"svc1">>, staffId |-> "staff1",
                   time |-> "10:00 AM"], 0).value

\* The component is mounted; the file is as shipped or holds an earlier
\* booking.
InitController ==
    /\ file \in { sampleData,
                  [sampleData EXCEPT !.bookings = << EarlierBooking >>] }
    /\ now = 0
    /\ last = [op |-> "none", input |-> Null, thrown |-> FALSE,
               value |-> Null, from |-> "login"]
    /\ created = {}
    /\ ui = InitialUi
    /\ calls = EmptyBag
    /\ hurry = 0
    /\ unseen = {}

NextController ==
    \/ PressLogin
    \/ SwitchToSignup
    \/ SwitchToLogin
    \/ PressSignUp
    \/ PressLogout
    \/ PressTab
    \/ PressBack
    \/ PickSalon
    \/ TapService
    \/ PressContinue
    \/ PickStaff
    \/ PickSlot
    \/ PressConfirm
    \/ PressBookAnother
    \/ PressViewMyBookings
    \/ Settle

SpecController == InitController /\ [][NextController]_vars

\* The component with a user who does not always wait: the app bar, the
\* tabs and the auth screens take presses while a call is in flight.
InitImpatient ==
    /\ file = sampleData
    /\ now = 0
    /\ last = [op |-> "none", input |-> Null, thrown |-> FALSE,
               value |-> Null, from |-> "login"]
    /\ created = {}
    /\ ui = InitialUi
    /\ calls = EmptyBag
    /\ hurry = MaxHurry
    /\ unseen = {}

SpecImpatient == InitImpatient /\ [][NextController]_vars

\* The component with a user who waits for what the screen shows: a pending
\* loadMyBookings shows nowhere.  Responses may be under way while other
\* calls are made.
InitBackground ==
    /\ file = sampleData
    /\ now = 0
    /\ last = [op |-> "none", input |-> Null, thrown |-> FALSE,
               value |-> Null, from |-> "login"]
    /\ created = {}
    /\ ui = InitialUi
    /\ calls = EmptyBag
    /\ hurry = 0
    /\ unseen = { "loadMyBookings" }

NextBackground ==
    \/ NextController
    \/ Serve

\* The user of SpecImpatient with every salon of the list to pick from.
NextTwoSalons ==
    \/ NextController
    \/ PickOtherSalon

SpecTwoSalons == InitImpatient /\ [][NextTwoSalons]_vars

SpecBackground == InitBackground /\ [][NextBackground]_vars

\* ------------------------------------------------------------------- claims
\* Does some element of arr have this id?
HasId(arr, id) == \E i \in 1..Len(arr) : arr[i].id = id

\* Is a user with this email stored in the document?
EmailStored(data, email) ==
    \E i \in 1..Len(data.users) : data.users[i].email = email

\* C1: createBooking throws when salonId matches no salon, staffId matches
\* no staff member or no id of serviceIds matches a service, and the
\* persisted document is then the same after the call as before it.
C1_FailedBookingPersistsNothing ==
    [][ (/\ last'.op = "createBooking"
         /\ \/ ~HasId(readData.salons, last'.input.salonId)
            \/ ~HasId(readData.staff, last'.input.staffId)
            \/ \A i \in 1..Len(last'.input.serviceIds) :
                   ~HasId(readData.services, last'.input.serviceIds[i]))
        => /\ last'.thrown
           /\ file' = file ]_vars

\* A createBooking that failed only because its staff member is unknown,
\* against a document that already holds a booking.
C1_Witness ==
    /\ last.op = "createBooking"
    /\ last.thrown
    /\ last.input.salonId = "salon1"
    /\ last.input.staffId = "staffX"
    /\ Len(last.input.serviceIds) = 3
    /\ Len(bookingsOf(readData)) >= 1

\* C2: after a successful createBooking(userId, salonId, serviceIds, staffId,
\* time) every later getBookings(userId) returns a list that includes a
\* booking with that userId, the salon resolved from salonId, the staff
\* member resolved from staffId, the services matched by serviceIds and
\* that time.
C2_CreatedBookingIsListed ==
    last.op = "getBookings" =>
        \A c \in created :
            c.input.userId = last.input.userId =>
                \E i \in 1..Len(last.value.bookings) :
                    LET b == last.value.bookings[i]
                    IN  /\ b.userId = c.input.userId
                        /\ b.time = c.input.time
                        /\ b.salon.id = c.input.salonId
                        /\ \E k \in 1..Len(readData.salons) : readData.salons[k] = b.salon
                        /\ b.staff.id = c.input.staffId
                        /\ \E k \in 1..Len(readData.staff) : readData.staff[k] = b.staff
                        /\ \A k \in 1..Len(b.services) :
                               includes(c.input.serviceIds, b.services[k].id)
                        /\ \A k \in 1..Len(readData.services) :
                               includes(c.input.serviceIds, readData.services[k].id)
                                   => includes(b.services, readData.services[k])

\* getBookings for a user with a booking, after a registration rewrote the
\* document and with another user's booking stored as well.
C2_Witness ==
    /\ last.op = "getBookings"
    /\ last.input.userId = "1"
    /\ Len(last.value.bookings) = 1
    /\ Len(bookingsOf(readData)) = 2
    /\ Len(readData.users) >= 2

\* C3: no two bookings of the bookings collection have the same id, also
\* when two calls build their id from the same clock reading.
C3_BookingIdsUnique ==
    \A i, j \in 1..Len(bookingsOf(readData)) :
        i # j => bookingsOf(readData)[i].id # bookingsOf(readData)[j].id

\* No two stored users share an email.
C4_NoSharedEmail ==
    \A i, j \in 1..Len(readData.users) :
        i # j => readData.users[i].email # readData.users[j].email

\* A register whose email is already stored returns success:false with the
\* 'Email already registered' message and leaves the users unchanged.
C4_DuplicateRejected ==
    (last'.op = "register" /\ EmailStored(readData, last'.input.email))
        => /\ ~last'.value.success
           /\ last'.value.message =
                  "Email already registered. Please login instead."
           /\ readData'.users = readData.users

\* C4: in every state no two stored users share an email, and every register
\* step whose email is already stored is rejected without changing the users.
C4_RegistrationUniqueness ==
    []C4_NoSharedEmail /\ [][C4_DuplicateRejected]_vars

\* A register rejected for an email stored by an earlier register, while an
\* email differing only in case was accepted.
C4_Witness ==
    /\ last.op = "register"
    /\ last.input.email = NewEmail1
    /\ ~last.value.success
    /\ Len(readData.users) >= 2
    /\ EmailStored(readData, DemoEmail)
    /\ EmailStored(readData, NewEmail1)

\* The five failing checks of register, each as a condition on the input
\* and the document the call reads.
IsBlank(input) ==
    \/ input.name = <<>> \/ input.phone = <<>>
    \/ input.email = <<>> \/ input.password = <<>>
IsShortPhone(input) == Len(input.phone) < 10
LacksAt(input) == \A i \in 1..Len(input.email) : input.email[i] # "@"
IsShortPassword(input) == Len(input.password) < 6

\* C5: register reports the first failing check in the order email stored,
\* blank field, short phone, email without '@', short password.
C5_RegisterCheckOrder ==
    [][ last'.op = "register" =>
        LET in == last'.input
            msg == last'.value.message
            stored == EmailStored(readData, in.email)
        IN  /\ stored =>
                msg = "Email already registered. Please login instead."
            /\ (~stored /\ IsBlank(in)) => msg = "All fields are required"
            /\ (~stored /\ ~IsBlank(in) /\ IsShortPhone(in)) =>
                msg = "Phone number must be at least 10 digits"
            /\ (~stored /\ ~IsBlank(in) /\ ~IsShortPhone(in) /\ LacksAt(in)) =>
                msg = "Invalid email address"
            /\ (/\ ~stored /\ ~IsBlank(in) /\ ~IsShortPhone(in)
                /\ ~LacksAt(in) /\ IsShortPassword(in)) =>
                msg = "Password must be at least 6 characters"
      ]_vars

\* register with an empty name, a short phone, an email without '@' and a
\* short password answered 'All fields are required'.
C5_Witness ==
    /\ last.op = "register"
    /\ last.input.name = <<>>
    /\ Len(last.input.phone) = 9
    /\ last.input.email = <<"d">>
    /\ Len(last.input.password) = 5
    /\ last.value.message = "All fields are required"

RegisterFailureMessages ==
    { "Email already registered. Please login instead.",
      "All fields are required",
      "Phone number must be at least 10 digits",
      "Invalid email address",
      "Password must be at least 6 characters" }

\* C6: a register that fails any of its checks returns
\* {success:false, message, user:null} without throwing and leaves the
\* persisted document unchanged.
C6_FailedRegisterIsSoft ==
    [][ (/\ last'.op = "register"
         /\ \/ EmailStored(readData, last'.input.email)
            \/ IsBlank(last'.input)
            \/ IsShortPhone(last'.input)
            \/ LacksAt(last'.input)
            \/ IsShortPassword(last'.input))
        => /\ ~last'.thrown
           /\ \E m \in RegisterFailureMessages :
                  last'.value = [success |-> FALSE, message |-> m,
                                 user |-> Null]
           /\ file' = file ]_vars

\* A register rejected only for its short password, after an earlier
\* register stored a user.
C6_Witness ==
    /\ last.op = "register"
    /\ ~last.value.success
    /\ last.value.message = "Password must be at least 6 characters"
    /\ Len(readData.users) = 2

\* C7: a successful register appends exactly one user, persists it and
\* returns success:true with a user of id, name, phone and email and no
\* password; the appended user has a non-empty name, a phone of at least 10
\* characters, an email containing '@' and a password of at least 6.
C7_SuccessfulRegister ==
    [][ (last'.op = "register" /\ last'.value.success) =>
        /\ Len(readData'.users) = Len(readData.users) + 1
        /\ SubSeq(readData'.users, 1, Len(readData.users)) = readData.users
        /\ [k \in DOMAIN readData \ {"users"} |-> readData'[k]] =
               [k \in DOMAIN readData \ {"users"} |-> readData[k]]
        /\ DOMAIN readData' = DOMAIN readData
        /\ LET u == readData'.users[Len(readData'.users)]
           IN  /\ u.name = last'.input.name
               /\ u.phone = last'.input.phone
               /\ u.email = last'.input.email
               /\ u.password = last'.input.password
               /\ u.name # <<>>
               /\ Len(u.phone) >= 10
               /\ \E i \in 1..Len(u.email) : u.email[i] = "@"
               /\ Len(u.password) >= 6
               /\ DOMAIN last'.value.user = {"id", "name", "phone", "email"}
               /\ last'.value.user.id = u.id
               /\ last'.value.user.name = u.name
               /\ last'.value.user.phone = u.phone
               /\ last'.value.user.email = u.email
      ]_vars

\* The second successful register of a run.
C7_Witness ==
    /\ last.op = "register"
    /\ last.value.success
    /\ Len(readData.users) = 3
    /\ last.value.user.email = readData.users[3].email

\* C8: all stored users have pairwise distinct ids, also when two
\* registrations build their id from the same clock reading.
C8_UserIdsUnique ==
    \A i, j \in 1..Len(readData.users) :
        i # j => readData.users[i].id # readData.users[j].id

\* C9: login succeeds exactly when a stored user has that email and that
\* password; the returned user then carries that user's id, name, phone and
\* email and no password; otherwise the result is success:false with user
\* null; the persisted document is never changed.
C9_LoginCorrect ==
    [][ last'.op = "login" =>
        LET in == last'.input
            matches == { i \in 1..Len(readData.users) :
                             /\ readData.users[i].email = in.email
                             /\ readData.users[i].password = in.password }
        IN  /\ ~last'.thrown
            /\ last'.value.success <=> matches # {}
            /\ last'.value.success =>
                   \E i \in matches :
                       /\ DOMAIN last'.value.user =
                              {"id", "name", "phone", "email"}
                       /\ last'.value.user.id = readData.users[i].id
                       /\ last'.value.user.name = readData.users[i].name
                       /\ last'.value.user.phone = readData.users[i].phone
                       /\ last'.value.user.email = readData.users[i].email
            /\ ~last'.value.success => last'.value.user = Null
            /\ file' = file
      ]_vars

\* A registered user logged in, and a login with a stored email and another
\* user's password is the complementary case reached from the same states.
C9_Witness ==
    /\ last.op = "login"
    /\ last.value.success
    /\ last.input.email = NewEmail1
    /\ Len(readData.users) = 3

FailedLogin(l) == l.op = "login" /\ ~l.value.success

\* C10: a failed login returns {success:false, 'Invalid email or password',
\* user:null}, and two failed logins one after the other against the same
\* document, one with a stored email and one with an unknown email, return
\* identical results.
C10_FailedLoginIsGeneric ==
    [][ /\ FailedLogin(last') =>
            last'.value = [success |-> FALSE,
                           message |-> "Invalid email or password",
                           user |-> Null]
        /\ (/\ FailedLogin(last) /\ FailedLogin(last')
            /\ EmailStored(readData, last.input.email)
                   # EmailStored(readData, last'.input.email))
           => last'.value = last.value
      ]_vars

\* A failed login whose email is stored (the password was wrong).
C10_Witness ==
    /\ FailedLogin(last)
    /\ EmailStored(readData, last.input.email)
    /\ last.input.email = DemoEmail

\* res is exactly the elements of coll that satisfy Match, in coll's order:
\* an increasing map of positions carries res onto the matching positions.
ExactlyMatching(res, coll, Match(_)) ==
    \E f \in [1..Len(res) -> 1..Len(coll)] :
        /\ \A i, j \in 1..Len(res) : i < j => f[i] < f[j]
        /\ \A i \in 1..Len(res) : res[i] = coll[f[i]]
        /\ \A k \in 1..Len(coll) :
               Match(coll[k]) <=> \E i \in 1..Len(res) : f[i] = k

\* C11: getServices(salonId) and getStaff(salonId) return exactly the stored
\* services / staff whose salonId is the argument, getBookings(userId) exactly
\* the stored bookings whose userId is the argument; each in the collection's
\* order, and as a returned (possibly empty) list, never as an error.
C11_QueriesFilterExactly ==
    /\ last.op = "getServices" =>
           /\ ~last.thrown
           /\ ExactlyMatching(last.value.services, readData.services,
                              LAMBDA s : s.salonId = last.input.salonId)
    /\ last.op = "getStaff" =>
           /\ ~last.thrown
           /\ ExactlyMatching(last.value.staff, readData.staff,
                              LAMBDA s : s.salonId = last.input.salonId)
    /\ last.op = "getBookings" =>
           /\ ~last.thrown
           /\ ExactlyMatching(last.value.bookings, bookingsOf(readData),
                              LAMBDA b : b.userId = last.input.userId)

\* A salon with two of the three services was asked for, while the document
\* holds bookings of both users.
C11_Witness ==
    /\ last.op = "getServices"
    /\ last.input.salonId = "salon1"
    /\ Len(last.value.services) = 2
    /\ \E i, j \in 1..Len(bookingsOf(readData)) :
           bookingsOf(readData)[i].userId # bookingsOf(readData)[j].userId

\* C12: writeData(d) followed by readData() with no write in between yields a
\* document equal to d, for every valid document d; and every readData reads
\* the file again, so a read that follows a read yields the same document,
\* the one of the most recent write.
C12_WriteThenRead ==
    [][ last'.op = "readData" =>
            /\ last.op = "writeData" => last'.value.data = last.input.data
            /\ last.op = "readData" => last'.value.data = last.value.data
      ]_vars

\* A document with a registered user and two bookings, which is not the one
\* imported at start-up, was written and read back.
C12_Witness ==
    /\ last.op = "readData"
    /\ last.value.data = file
    /\ Len(last.value.data.users) = 2
    /\ Len(bookingsOf(last.value.data)) = 2
    /\ last.value.data.bookings[1].userId # last.value.data.bookings[2].userId

\* The four selections of a component state.
Selections(u) ==
    << u.selectedSalon, u.selectedServices, u.selectedStaff,
       u.selectedSchedule >>

\* login returned success with a user.
LoginSucceeded(l) ==
    l.op = "login" /\ ~l.thrown /\ l.value.success /\ l.value.user # Null

\* The step in which a login settles: when it succeeded the component is
\* authenticated as the returned user at step salon with no selections and
\* a getSalons call in flight; otherwise step, isAuthenticated, currentUser
\* and the selections are as before.
C13_LoginSettles ==
    last'.op = "login" =>
        IF LoginSucceeded(last')
        THEN /\ ui'.step = "salon"
             /\ ui'.isAuthenticated
             /\ ui'.currentUser = last'.value.user
             /\ Selections(ui') = << Null, <<>>, Null, Null >>
             /\ \E c \in BagToSet(calls') : c.op = "getSalons"
        ELSE /\ ui'.step = ui.step
             /\ ui'.isAuthenticated = ui.isAuthenticated
             /\ ui'.currentUser = ui.currentUser
             /\ Selections(ui') = Selections(ui)

\* C13: the controller starts in step login, unauthenticated; a step from
\* login to salon is the settling of a successful login, which sets the
\* current user, clears the four selections (whatever they were) and fetches
\* the salons; a login that fails or rejects leaves step, isAuthenticated,
\* currentUser and the selections unchanged.
C13_LoginTransitions ==
    /\ ui.step = "login" /\ ~ui.isAuthenticated
    /\ [](LET response == LoggedIn(SeedUsers[1], file).value
              d == handleLoginResumed(ui, response)
          IN  /\ Selections(d.ui) = << Null, <<>>, Null, Null >>
              /\ d.ui.currentUser = response.user
              /\ d.ui.isAuthenticated
              /\ d.ui.step = "salon")
    /\ [][ /\ C13_LoginSettles
           /\ (ui.step = "login" /\ ui'.step = "salon")
                  => LoginSucceeded(last') ]_vars

\* The demo user has logged in from the login step, and the salons and the
\* user's bookings are being fetched.
C13_Witness ==
    /\ LoginSucceeded(last)
    /\ last.from = "login"
    /\ ui.step = "salon"
    /\ ui.currentUser.id = "1"
    /\ BagCardinality(calls) = 3

\* A component state as logout leaves it.
LoggedOut(u) ==
    /\ ~u.isAuthenticated
    /\ u.currentUser = Null
    /\ Selections(u) = << Null, <<>>, Null, Null >>
    /\ u.myBookings = <<>>
    /\ u.step = "login"

\* C14: logout, from whatever step and tab the component is in, sets
\* isAuthenticated to false and currentUser to null, clears the four
\* selections, empties the local booking list and sets step to login.
C14_LogoutResets ==
    /\ LoggedOut(handleLogout(ui))
    /\ last.op = "handleLogout" => LoggedOut(ui)

\* The user has logged out on the profile tab in the middle of a booking,
\* with a booking stored for them.
C14_Witness ==
    /\ last.op = "handleLogout"
    /\ last.from = "confirmation"
    /\ ui.activeTab = "profile"
    /\ Len(bookingsOf(file)) > 0

\* C15: at most one service call of the component is in flight, and loading
\* is set for as long as a call is in flight.
C15_OneCallAtATime ==
    /\ BagCardinality(calls) <= 1
    /\ calls # EmptyBag => ui.loading

\* The service calls of the component.
ServiceOps ==
    { "login", "register", "getSalons", "getServices", "getStaff",
      "getStaffSchedules", "getBookings", "createBooking" }

\* C16: a service call that rejects is caught and the component becomes
\* interactive again, with loading false and at the step the call was awaited
\* in.  Once the rejected call was the last one in flight nothing more
\* happens until the user acts, so the component is interactive by then.
C16_FailureRecovers ==
    (last.op \in ServiceOps /\ last.thrown /\ calls = EmptyBag)
        => (~ui.loading /\ ui.step = last.from)

\* C17: Confirm at the confirmation step issues exactly one createBooking,
\* carrying the id of the current user, the id of the selected salon, the ids
\* of the selected services, the id of the selected staff member and the time
\* of the selected slot; when the call succeeds the booking it returned
\* becomes the last element of myBookings and the step becomes success.
C17_ConfirmCreatesBooking ==
    [][ /\ last'.op = "confirmBooking" =>
            /\ ui.step = "confirmation"
            /\ BagCardinality(calls') = 1
            /\ \A c \in BagToSet(calls') :
                   /\ c.op = "createBooking"
                   /\ c.input =
                          [userId |-> ui.currentUser.id,
                           salonId |-> ui.selectedSalon.id,
                           serviceIds |->
                               [i \in 1..Len(ui.selectedServices) |->
                                   ui.selectedServices[i].id],
                           staffId |-> ui.selectedStaff.id,
                           time |-> ui.selectedSchedule.time]
        /\ (last'.op = "createBooking" /\ ~last'.thrown) =>
            /\ ui'.myBookings = Append(ui.myBookings, last'.value)
            /\ ui'.step = "success"
      ]_vars

\* A booking of two services was confirmed and joined an earlier booking in
\* myBookings.
C17_Witness ==
    /\ last.op = "createBooking"
    /\ ~last.thrown
    /\ Len(last.input.serviceIds) = 2
    /\ Len(ui.myBookings) = 2
    /\ ui.step = "success"

BackFrom(u) ==
    CASE u.step = "services" ->
             [u EXCEPT !.step = "salon", !.selectedServices = <<>>]
      [] u.step = "staff" ->
             [u EXCEPT !.step = "services", !.selectedStaff = Null]
      [] u.step = "schedule" ->
             [u EXCEPT !.step = "staff", !.selectedSchedule = Null]
      [] u.step = "confirmation" -> [u EXCEPT !.step = "schedule"]
      [] OTHER -> u

\* C19: back is a function of the step.  From services it goes to salon and
\* clears the selected services, from staff to services clearing the selected
\* staff, from schedule to staff clearing the selected schedule, from
\* confirmation to schedule clearing nothing; every other field is left as it
\* was and no call is issued.  Back is not offered at salon, login, signup
\* and success, and changes nothing at salon, login and signup.
C19_BackNavigation ==
    /\ ui.step # "success" =>
           handleBack(ui) = [ui |-> BackFrom(ui), issued |-> <<>>]
    /\ ui.step \in { "salon", "login", "signup" } => handleBack(ui).ui = ui
    /\ shouldShowBack(ui) <=>
           ui.step \in { "services", "staff", "schedule", "confirmation" }
    /\ (last.op = "handleBack" /\ last.from = "schedule") =>
           /\ ui.step = "staff"
           /\ ui.selectedSchedule = Null
           /\ ui.selectedStaff # Null
           /\ ui.selectedServices # <<>>

\* Back was pressed at the schedule step, with a staff member and services
\* selected.
C19_Witness ==
    /\ last.op = "handleBack"
    /\ last.from = "schedule"
    /\ ui.step = "staff"
    /\ ui.selectedStaff # Null
    /\ Len(ui.selectedServices) = 2

\* The ids of a list of services, and its elements.
idsOf(list) == { list[i].id : i \in 1..Len(list) }
elementsOf(list) == { list[i] : i \in 1..Len(list) }

\* C20: tapping a service at the services step adds it to the selected
\* services when none of them has its id and removes it otherwise; tapping
\* it once more gives the selection its original members; the step stays
\* services.
C20_ToggleService ==
    [][ last'.op = "toggleService" =>
            LET service == last'.input
                before == ui.selectedServices
                after == ui'.selectedServices
            IN  /\ ui.step = "services"
                /\ ui'.step = "services"
                /\ IF service.id \notin idsOf(before)
                   THEN /\ elementsOf(after) = elementsOf(before) \cup {service}
                        /\ Len(after) = Len(before) + 1
                   ELSE /\ idsOf(after) = idsOf(before) \ {service.id}
                        /\ elementsOf(after) \subseteq elementsOf(before)
                /\ elementsOf(toggleService(after, service))
                       = elementsOf(before)
      ]_vars

\* A selected service was tapped and left the selection, another one stayed.
C20_Witness ==
    /\ last.op = "toggleService"
    /\ ui.step = "services"
    /\ Len(ui.selectedServices) = 1
    /\ last.input.id \notin idsOf(ui.selectedServices)

\* C21: Continue at the services step with no service selected issues no
\* call and changes nothing; with a service selected it issues one getStaff
\* for the selected salon, and the step becomes staff, with the staff of
\* that salon, when the call returns.  The staff step is entered from the
\* services step in no other way.
C21_ContinueNeedsSelection ==
    [][ /\ last'.op = "proceedToStaff" =>
            /\ ui.step = "services"
            /\ IF ui.selectedServices = <<>>
               THEN ui' = ui /\ calls' = calls
               ELSE /\ ui'.step = "services"
                    /\ BagCardinality(calls') = 1
                    /\ \A c \in BagToSet(calls') :
                           /\ c.op = "getStaff"
                           /\ c.input = [salonId |-> ui.selectedSalon.id]
        /\ (last'.op = "getStaff" /\ ~last'.thrown) =>
            /\ ui.selectedServices # <<>>
            /\ ui'.step = "staff"
            /\ ui'.staff = getStaff(ui.selectedSalon.id)
            /\ Selections(ui') = Selections(ui)
        /\ (ui.step = "services" /\ ui'.step = "staff") =>
            (last'.op = "getStaff" /\ ~last'.thrown)
      ]_vars

\* Continue was pressed with nothing selected.
C21_Witness ==
    /\ last.op = "proceedToStaff"
    /\ ui.step = "services"
    /\ ui.selectedServices = <<>>
    /\ ui.selectedSalon # Null
    /\ ~ui.loading
    /\ calls = EmptyBag

\* C22: handleScheduleSelect with a slot that is not available changes
\* nothing; with an available slot it stores the slot as selectedSchedule
\* and moves from the schedule step to confirmation.
C22_SlotMustBeAvailable ==
    /\ \A i \in 1..Len(ui.schedules) :
           IF ui.schedules[i].isAvailable
           THEN handleScheduleSelect(ui, ui.schedules[i]) =
                    [ui EXCEPT !.selectedSchedule = ui.schedules[i],
                               !.step = "confirmation"]
           ELSE handleScheduleSelect(ui, ui.schedules[i]) = ui
    /\ last.op = "handleScheduleSelect" =>
           /\ last.from = "schedule"
           /\ last.input.isAvailable
           /\ ui.step = "confirmation"
           /\ ui.selectedSchedule = last.input

\* An available slot was picked from a list that has slots not available.
C22_Witness ==
    /\ last.op = "handleScheduleSelect"
    /\ ui.step = "confirmation"
    /\ ui.selectedSchedule = last.input
    /\ \E i \in 1..Len(ui.schedules) : ~ui.schedules[i].isAvailable

\* The price the seed data gives the service of an id, counted when the id
\* is among the ids of a selection.
priceIfSelected(selection, service) ==
    IF service.id \in idsOf(selection) THEN service.price ELSE 0

\* C23: the total price is the sum of the prices of the selected services:
\* 0 with none selected, 65 with the services of price 25 and 40 selected,
\* and after a tap on a service it is the total before the tap plus the
\* price of the service when the tap selected it, minus the price when the
\* tap removed it.
C23_TotalPrice ==
    [][ /\ getTotalPrice(ui'.selectedServices) =
               priceIfSelected(ui'.selectedServices, SeedServices[1])
             + priceIfSelected(ui'.selectedServices, SeedServices[2])
             + priceIfSelected(ui'.selectedServices, SeedServices[3])
        /\ ui'.selectedServices = <<>> =>
               getTotalPrice(ui'.selectedServices) = 0
        /\ idsOf(ui'.selectedServices) = { "svc1", "svc2" } =>
               getTotalPrice(ui'.selectedServices) = 65
        /\ last'.op = "toggleService" =>
               getTotalPrice(ui'.selectedServices) =
                   IF last'.input.id \in idsOf(ui.selectedServices)
                   THEN getTotalPrice(ui.selectedServices) - last'.input.price
                   ELSE getTotalPrice(ui.selectedServices) + last'.input.price
      ]_vars

\* One of the two selected services, of total price 65, was tapped and the
\* other is left.
C23_Witness ==
    /\ last.op = "toggleService"
    /\ Len(ui.selectedServices) = 1
    /\ last.input.id \notin idsOf(ui.selectedServices)
    /\ getTotalPrice(ui.selectedServices) + last.input.price = 65
    /\ getTotalPrice(ui.selectedServices) \in { 25, 40 }

\* The steps of the booking flow after the choice of a salon.
MidFlow == { "services", "staff", "schedule", "confirmation", "success" }

\* What the change of the active tab to home is to make of a component
\* state: only the step and the four selections may differ.
AfterHomeTab(u) ==
    IF u.isAuthenticated /\ u.step \in MidFlow
    THEN [clearSelections(u) EXCEPT !.step = "salon", !.activeTab = "home"]
    ELSE [u EXCEPT !.activeTab = "home"]

\* C24: when the active tab changes to home while the user is authenticated
\* and the step is services, staff, schedule, confirmation or success, the
\* step becomes salon and the four selections are cleared; at login, signup
\* and salon the change leaves the step and the selections as they were.
C24_HomeTabResetsFlow ==
    [][ /\ ui.activeTab # "home" =>
            /\ setActiveTab(ui, "home") = AfterHomeTab(ui)
            /\ ui.step \in { "login", "signup", "salon" } =>
                   /\ setActiveTab(ui, "home").step = ui.step
                   /\ Selections(setActiveTab(ui, "home")) = Selections(ui)
        /\ (last'.op = "setActiveTab" /\ last'.input.tab = "home") =>
            /\ ui.activeTab # "home"
            /\ ui' = AfterHomeTab(ui)
            /\ calls' = calls
      ]_vars

\* The user came back to the home tab at the confirmation step and is at the
\* salon step with nothing selected.
C24_Witness ==
    /\ last.op = "setActiveTab"
    /\ last.input.tab = "home"
    /\ last.from = "confirmation"
    /\ ui.step = "salon"
    /\ Selections(ui) = << Null, <<>>, Null, Null >>

\* The five fields of the signup form.
SignupFields(u) ==
    << u.signupName, u.signupPhone, u.signupEmail, u.signupPassword,
       u.signupConfirmPassword >>

\* C25: Sign Up with a password that differs from its confirmation issues no
\* register call, leaves the file as it is and stays at signup; with
\* matching passwords one register call is issued, and when it succeeds the
\* five signup fields are empty, the email field of the login form holds the
\* registered email and the step is login, the user not being
\* authenticated; when it fails the step stays signup.
C25_SignupTransitions ==
    [][ /\ last'.op = "handleSignup" =>
            /\ ui.step = "signup"
            /\ ui'.step = "signup"
            /\ file' = file
            /\ IF last'.input.password # last'.input.confirmPassword
               THEN calls' = EmptyBag
               ELSE /\ BagCardinality(calls') = 1
                    /\ \A c \in BagToSet(calls') :
                           /\ c.op = "register"
                           /\ c.input = [name |-> last'.input.name,
                                         phone |-> last'.input.phone,
                                         email |-> last'.input.email,
                                         password |-> last'.input.password]
        /\ last'.op = "register" =>
            IF ~last'.thrown /\ last'.value.success
            THEN /\ SignupFields(ui') = << <<>>, <<>>, <<>>, <<>>, <<>> >>
                 /\ ui'.email = last'.input.email
                 /\ EmailStored(readData', last'.input.email)
                 /\ ui'.step = "login"
                 /\ ~ui'.isAuthenticated
                 /\ ui'.currentUser = Null
            ELSE /\ ui'.step = "signup"
                 /\ SignupFields(ui') = SignupFields(ui)
                 /\ file' = file
      ]_vars

\* A registration succeeded and the login form shows its email.
C25_Witness ==
    /\ last.op = "register"
    /\ ~last.thrown
    /\ last.value.success
    /\ ui.step = "login"
    /\ ui.email = NewEmail1
    /\ ~ui.isAuthenticated

\* Every element of `earlier` is in `later`, unchanged and at its position.
Extends(later, earlier) ==
    /\ Len(earlier) <= Len(later)
    /\ SubSeq(later, 1, Len(earlier)) = earlier

\* C26: no resolver operation changes the salons, services, staff or
\* schedules of the file, and each leaves every stored user and every stored
\* booking unchanged and at its position (users and bookings grow at the end
\* only).  Holding for every step, it holds between any two states of a run.
C26_SeedReadOnlyStoreAppendOnly ==
    [][ /\ readData'.salons = readData.salons
        /\ readData'.services = readData.services
        /\ readData'.staff = readData.staff
        /\ readData'.schedules = readData.schedules
        /\ Extends(readData'.users, readData.users)
        /\ Extends(bookingsOf(readData'), bookingsOf(readData))
      ]_vars

\* A user was registered after another registration, and a booking was
\* created after an earlier one.
C26_Witness ==
    /\ Len(readData.users) = Len(SeedUsers) + 2
    /\ Len(bookingsOf(readData)) >= 2
    /\ last.op \in { "createBooking", "register" }
    /\ ~last.thrown

\* C27: the userId of every stored booking is the id of a stored user (users
\* are never removed, so a user stored when the booking was created is
\* stored now), and a createBooking whose userId is the id of no stored user
\* fails without a booking.
C27_BookingUserExists ==
    /\ \A i \in 1..Len(bookingsOf(readData)) :
           HasId(readData.users, bookingsOf(readData)[i].userId)
    /\ (last.op = "createBooking"
            /\ ~HasId(readData.users, last.input.userId)) => last.thrown

\* C28: the CreateBooking handler of the mock service worker and the native
\* mock resolver yield what the resolver yields for the same input at the
\* same time: a failure when the salon, the staff member or every service
\* is unknown, and otherwise the booking with the userId, salon, services,
\* staff and time of the request.
C28_TransportsAgree ==
    last.op \in { "mswCreateBooking", "nativeCreateBooking" } =>
        LET r == createBooking(readData, last.input, now)
        IN  /\ last.thrown = r.thrown
            /\ ~r.thrown => last.value = r.value

\* C29: the step is login or signup exactly when the user is not
\* authenticated, also when the user acted while a call was in flight and
\* the response was applied afterwards.
C29_AuthScreensIffLoggedOut ==
    ui.step \in { "login", "signup" } <=> ~ui.isAuthenticated

\* C30: at the confirmation step the current user, the selected salon, the
\* selected staff member and the selected schedule are set and a service is
\* selected; at the staff and schedule steps the selected salon is set and a
\* service is selected; also when the user acted while a call was in flight.
C30_SelectionsSetWhereNeeded ==
    /\ ui.step = "confirmation" =>
           /\ ui.currentUser # Null
           /\ ui.selectedSalon # Null
           /\ ui.selectedStaff # Null
           /\ ui.selectedSchedule # Null
           /\ ui.selectedServices # <<>>
    /\ ui.step \in { "staff", "schedule" } =>
           /\ ui.selectedSalon # Null
           /\ ui.selectedServices # <<>>

\* The last element of a non-empty list.
lastOf(list) == list[Len(list)]

\* C31: at the success step myBookings is not empty and its last element is
\* the booking a confirm created, as the client returned it; a getBookings
\* response that started at login and arrives later leaves that as it is.
C31_SuccessShowsLastBooking ==
    ui.step = "success" =>
        /\ ui.myBookings # <<>>
        /\ \E c \in created : lastOf(ui.myBookings) = selectBooking(c.booking)

\* C32: myBookings holds only bookings of the authenticated user and is
\* empty while no user is authenticated, also when a getBookings or
\* createBooking response of the user before arrives after the logout.
C32_BookingsOfCurrentUserOnly ==
    IF ui.isAuthenticated /\ ui.currentUser # Null
    THEN \A i \in 1..Len(ui.myBookings) :
             ui.myBookings[i].userId = ui.currentUser.id
    ELSE ui.myBookings = <<>>
\* C33: in one resolver process nothing runs between a mutation's readData()
\* and its writeData(data): a mutation that has read holds the document the
\* file still holds.  Hence every step keeps the users and bookings stored
\* before it, every booking returned as created and every user just returned
\* as registered is in the document, and no two stored users share an email.
C33_ReadModifyWriteIsTransactional ==
    [][ /\ \A c \in BagToSet(calls') :
              c.phase = "read" => c.data = readData'
        /\ Extends(readData'.users, readData.users)
        /\ Extends(bookingsOf(readData'), bookingsOf(readData))
        /\ \A c \in created' :
              c.booking \in elementsOf(bookingsOf(readData'))
        /\ (last' # last /\ last'.op = "register" /\ ~last'.thrown
               /\ last'.value.success)
             => HasId(readData'.users, last'.value.user.id)
        /\ \A i, j \in 1..Len(readData'.users) :
              readData'.users[i].email = readData'.users[j].email => i = j
      ]_vars

\* A registration of an email has just been refused while another mutation
\* is in flight, the email's first registration and a created booking
\* being stored.
C33_Witness ==
    /\ last.op = "register" /\ ~last.thrown /\ ~last.value.success
    /\ EmailStored(readData, NewEmail1)
    /\ created # {}
    /\ \E c \in BagToSet(calls) : c.phase = "delay"

\* C34: between processes nothing orders the reads and the writes: an
\* invocation that returns writes the document it read with its own
\* record appended, whatever other processes wrote in between, so the
\* file is the document written last.
C34_LastWriterWins ==
    [][ \A c \in BagToSet(calls) :
          (calls' = calls (-) SetToBag({c}) /\ ~last'.thrown)
          => /\ c.op = "createBooking" =>
                  /\ bookingsOf(readData') =
                         Append(bookingsOf(c.data), last'.value)
                  /\ readData'.users = c.data.users
             /\ (c.op = "register" /\ last'.value.success) =>
                  /\ Len(readData'.users) = Len(c.data.users) + 1
                  /\ Extends(readData'.users, c.data.users)
                  /\ lastOf(readData'.users).id = last'.value.user.id
                  /\ bookingsOf(readData') = bookingsOf(c.data)
      ]_vars

\* A booking returned as created is no longer in the file, which another
\* process wrote from an older read.
C34_Witness ==
    \E c \in created : c.booking \notin elementsOf(bookingsOf(readData))

\* A user has just been returned as registered by one process and the
\* file, written since by another, does not hold the email.
C34_WitnessUser ==
    /\ ~EmailStored(readData, NewEmail1)
    /\ \E c \in BagToSet(calls) :
          c.phase = "read" /\ EmailStored(c.data, NewEmail1)
\* C35: at the services, staff, schedule and confirmation steps with no
\* call in flight the fetched services are the services of the selected
\* salon, every selected service belongs to the selected salon and the
\* selected staff member, when set, belongs to it too.
C35_SelectionsOfSelectedSalon ==
    (ui.step \in {"services", "staff", "schedule", "confirmation"}
       /\ calls = EmptyBag /\ ui.selectedSalon # Null)
    => /\ ui.services = getServices(ui.selectedSalon.id)
       /\ \A i \in 1..Len(ui.selectedServices) :
             ui.selectedServices[i].salonId = ui.selectedSalon.id
       /\ ui.selectedStaff # Null =>
             ui.selectedStaff.salonId = ui.selectedSalon.id
\* C36: in every stored booking the embedded services and the embedded
\* staff member belong to the embedded salon.
C36_StoredBookingsOfOneSalon ==
    \A i \in 1..Len(bookingsOf(readData)) :
        LET booking == bookingsOf(readData)[i]
        IN  /\ \A j \in 1..Len(booking.services) :
                  booking.services[j].salonId = booking.salon.id
            /\ booking.staff.salonId = booking.salon.id

\* C37: getStaffSchedules returns the whole schedule collection of the
\* document, the same five slots, for a staff member of either salon and
\* for an id no staff member has.
C37_SchedulesIgnoreStaff ==
    last.op = "getStaffSchedules"
    => /\ ~last.thrown
       /\ last.value.schedules = SeedSchedules
       /\ idsOf(last.value.schedules) =
             { "sch1", "sch2", "sch3", "sch4", "sch5" }

\* The schedules of an id no staff member has were asked for and returned.
C37_Witness ==
    /\ last.op = "getStaffSchedules"
    /\ last.input.staffId = "staffX"
    /\ last.value.schedules # <<>>
\* C38: the success step is left by the reset of either button: the step
\* becomes salon, the four selections are cleared, one getSalons call is
\* issued, and myBookings and the authenticated user are kept.
C38_ResetAfterSuccess ==
    [][ (last' # last /\ last'.op = "resetBooking")
        => /\ ui.step = "success"
           /\ ui'.step = "salon"
           /\ ui'.selectedSalon = Null
           /\ ui'.selectedServices = <<>>
           /\ ui'.selectedStaff = Null
           /\ ui'.selectedSchedule = Null
           /\ ui'.myBookings = ui.myBookings
           /\ ui'.currentUser = ui.currentUser
           /\ ui'.isAuthenticated = ui.isAuthenticated
           /\ \E c \in BagToSet(calls') :
                 /\ c.op = "getSalons"
                 /\ calls' = calls (+) SetToBag({c})
      ]_vars

\* The reset has just run from the success step with a booking in the list
\* and a user logged in.
C38_Witness ==
    /\ last.op = "resetBooking"
    /\ last.from = "success"
    /\ ui.step = "salon"
    /\ ui.myBookings # <<>>
    /\ ui.isAuthenticated
    /\ \E c \in BagToSet(calls) : c.op = "getSalons"

\* The reset of "View My Bookings" has run and the bookings tab is open.
C38_WitnessBookingsTab ==
    /\ last.op = "resetBooking"
    /\ last.input # Null
    /\ ui.activeTab = "bookings"
    /\ ui.myBookings # <<>>
\* C39: the selected schedule, when set, is an available slot, and every
\* createBooking call in flight carries the time of an available slot of
\* the fetched list.
C39_BookedSlotIsAvailable ==
    /\ ui.selectedSchedule # Null => ui.selectedSchedule.isAvailable
    /\ \A c \in BagToSet(calls) :
          c.op = "createBooking" =>
              \E i \in 1..Len(ui.schedules) :
                  /\ ui.schedules[i].isAvailable
                  /\ ui.schedules[i].time = c.input.time

\* A createBooking call is in flight for the selected slot, the fetched
\* list holding slots that are not available.
C39_Witness ==
    /\ ui.selectedSchedule # Null
    /\ \E c \in BagToSet(calls) :
          c.op = "createBooking" /\ c.input.time = ui.selectedSchedule.time
    /\ \E i \in 1..Len(ui.schedules) : ~ui.schedules[i].isAvailable
====
